---- MODULE Spec2Model ----
(***************************************************************************)
(* Shard registry, per-shard coordinator and table-membership protocol of  *)
(* cluster/src/shard_set.rs.                                               *)
(*                                                                         *)
(* A Shard owns a ShardData (shard_info + tables) behind a std RwLock (the *)
(* metadata lock) and a ShardOperator behind a tokio Mutex (the operator   *)
(* lock).  Each step below is one critical section of the metadata lock,   *)
(* one acquisition of the operator lock, or the return of a method, which  *)
(* drops the guard of the operator lock.                                   *)
(***************************************************************************)
EXTENDS Integers, Sequences, FiniteSets, TLC

\* Every record field used below, once, in alphabetical order; each record
\* constructor lists its fields in this order.
RecordFields ==
    [after_freeze |-> "history", caller |-> "call", data |-> "Outcome",
     freeze_applied |-> "history", handle |-> "ShardSet",
     id |-> "ShardInfo, TableInfo",
     init_version |-> "history", name |-> "TableInfo", ok_count |-> "history",
     op |-> "call", post |-> "call", pre |-> "call", ready_count |-> "history", result |-> "read",
     ret |-> "Outcome", schema_name |-> "TableInfo",
     shard |-> "call", shard_info |-> "ShardData", status |-> "ShardInfo",
     table |-> "call", table_info |-> "UpdatedTableInfo", tables |-> "ShardData",
     val |-> "Outcome", version |-> "ShardInfo"]

\* ---------------------------------------------------------------- bounds
\* Version tokens carried by callers range over 0..MaxVersion.
MaxVersion == 1
\* Longest table list of the descriptor a shard is built from.
MaxInitTables == 0
\* Largest version of the descriptor a shard is built from.
MaxInitVersion == 0

\* Concurrent callers of one node, and the table ids they name.
Callers == {1, 2}
TableIds == {1, 2}
TableNames == {"t"}
SchemaNames == {"public"}
Handles == {1}
NoOwner == 0

\* The shard ids the registry is asked about, the handles (Arc<Shard>) it is
\* given, and Option<ShardRef>::None.
ShardIds == {1, 2}
ShardRefs == {1, 2, 3}
NoHandle == 0

\* ------------------------------------------------------------ value types
\* meta_client::types::ShardStatus, as far as this core distinguishes it.
ShardStatus == {"NotOpened", "Opening", "Ready", "Frozen"}

\* meta_client::types::TableInfo: the fields this core reads.
TableInfo == [id : TableIds, name : TableNames, schema_name : SchemaNames]

\* The table operations, and those of them that change the membership for
\* the outside world.
TableOps == {"create_table", "drop_table", "open_table", "close_table"}
StructuralOps == {"create_table", "drop_table"}

\* UpdatedTableInfo: the caller's believed shard info and the table.
UpdatedTableInfo(shard_id, version, table) ==
    [shard_info |-> [id |-> shard_id, version |-> version], table_info |-> table]

\* Table lists with pairwise distinct ids, of length at most n.
RECURSIVE DistinctTables(_)
DistinctTables(n) ==
    IF n = 0 THEN {<< >>}
    ELSE LET shorter == DistinctTables(n - 1)
         IN shorter \cup
            {Append(s, t) : s \in {x \in shorter : Len(x) = n - 1}, t \in TableInfo}

HasDistinctIds(tables) ==
    \A i, j \in DOMAIN tables : tables[i].id = tables[j].id => i = j

\* TablesOfShard: the descriptor Shard::new is given, for a shard that is not
\* opened on this node yet.  Every other status, version and table list is
\* reached from it by the steps below.
TablesOfShard ==
    {[shard_info |-> [id |-> h, status |-> st, version |-> v], tables |-> ts] :
        h \in ShardIds, v \in 0 .. MaxInitVersion, st \in {"NotOpened"},
        ts \in {s \in DistinctTables(MaxInitTables) : HasDistinctIds(s)}}

\* ----------------------------------------------------------------- state
VARIABLES
    shards,     \* handle -> ShardData (shard_info, tables)
    poisoned,   \* handle -> the metadata RwLock is poisoned by a panic
    operator,   \* handle -> caller holding the operator Mutex, or NoOwner
    pc,         \* caller -> where it stands in its call
    call,       \* caller -> the call in flight
    last,       \* the call that has just returned, with the data before and after
    hist,       \* handle -> history of the shard (what has happened so far)
    inner,      \* ShardSet::inner: shard id -> handle, or NoHandle
    mapped      \* shard id -> the handle last inserted and not removed since

vars == <<shards, poisoned, operator, pc, call, last, hist, inner, mapped>>

\* The registry and its history.
shard_set == <<inner, mapped>>

NoCall == [op |-> "none"]
NoLast == [op |-> "none"]

\* History counters count 0, 1, "more than once".
Saturate(n) == IF n > 2 THEN 2 ELSE n

\* ------------------------------------------------------------- ShardData
\* ShardInfo::is_opened.
ShardInfo_is_opened(shard_info) == shard_info.status = "Ready"

freeze(self) == [self EXCEPT !.shard_info.status = "Frozen"]

\* begin_open that marks the shard opened before the operator has run.
begin_open_marks_ready(self) == [self EXCEPT !.shard_info.status = "Ready"]

\* begin_open that starts the shard over with an empty table list.
begin_open_clears_tables(self) ==
    [self EXCEPT !.shard_info.status = "Opening", !.tables = << >>]

begin_open(self) == [self EXCEPT !.shard_info.status = "Opening"]

\* An assertion of finish_open that accepts every status.
finish_open_assert_lenient(self) == TRUE

\* The assertion of finish_open: the status it must find.
finish_open_assert(self) == self.shard_info.status = "Opening"

finish_open(self) == [self EXCEPT !.shard_info.status = "Ready"]

is_opened(self) == ShardInfo_is_opened(self.shard_info)

\* need_open that never refuses.
need_open_always(self) == TRUE

\* need_open that admits only a shard no open was ever begun on.
need_open_fresh_only(self) == self.shard_info.status = "NotOpened"

need_open(self) == ~is_opened(self)

is_frozen(self) == self.shard_info.status = "Frozen"

\* A slip in the increment: the version skips one.
inc_shard_version_skips(self) == [self EXCEPT !.shard_info.version = @ + 2]

inc_shard_version(self) == [self EXCEPT !.shard_info.version = @ + 1]

\* A Result<ShardVersion> together with the data the call leaves behind.
Outcome(ret, val, data) == [data |-> data, ret |-> ret, val |-> val]
NoVal == -1

\* Option<TableInfo>::None.
NoTable == [id |-> 0, name |-> "none", schema_name |-> "none"]

\* Vec::swap_remove: the last element takes the place of the removed one.
\* Vec::pop in the place of swap_remove: the last element goes, whichever
\* index was asked for.
swap_remove_pops(tables, idx) ==
    [i \in 1 .. (Len(tables) - 1) |-> tables[i]]

swap_remove(tables, idx) ==
    LET n == Len(tables)
    IN [i \in 1 .. (n - 1) |-> IF i = idx THEN tables[n] ELSE tables[i]]

\* Iterator::position: the first index whose table has the id, 0 for None.
position(tables, id) ==
    LET hits == {i \in DOMAIN tables : tables[i].id = id}
    IN IF hits = {} THEN 0 ELSE CHOOSE i \in hits : \A j \in hits : i <= j

\* Iterator::find: the first table with the schema name and the table name,
\* NoTable for None.
find(tables, schema_name, table_name) ==
    LET hits == {i \in DOMAIN tables :
                    tables[i].schema_name = schema_name /\ tables[i].name = table_name}
    IN IF hits = {} THEN NoTable
       ELSE tables[CHOOSE i \in hits : \A j \in hits : i <= j]

ShardData_find_table(self, schema_name, table_name) ==
    find(self.tables, schema_name, table_name)

\* try_insert_table without its version check.
try_insert_table_unversioned(self, updated_info, inc_version) ==
    IF is_frozen(self)
    THEN Outcome("FrozenShard", NoVal, self)
    ELSE IF position(self.tables, updated_info.table_info.id) # 0
    THEN Outcome("AlreadyExists", NoVal, self)
    ELSE LET pushed == [self EXCEPT !.tables = Append(@, updated_info.table_info)]
             after == IF inc_version THEN inc_shard_version(pushed) ELSE pushed
         IN Outcome("Ok", after.shard_info.version, after)

\* try_insert_table without its look for the table id.
try_insert_table_unchecked(self, updated_info, inc_version) ==
    IF is_frozen(self)
    THEN Outcome("FrozenShard", NoVal, self)
    ELSE IF self.shard_info.version # updated_info.shard_info.version
    THEN Outcome("VersionMismatch", NoVal, self)
    ELSE LET pushed == [self EXCEPT !.tables = Append(@, updated_info.table_info)]
             after == IF inc_version THEN inc_shard_version(pushed) ELSE pushed
         IN Outcome("Ok", after.shard_info.version, after)

\* try_insert_table that compares the versions before it looks at Frozen.
try_insert_table_version_first(self, updated_info, inc_version) ==
    IF self.shard_info.version # updated_info.shard_info.version
    THEN Outcome("VersionMismatch", NoVal, self)
    ELSE IF is_frozen(self)
    THEN Outcome("FrozenShard", NoVal, self)
    ELSE IF position(self.tables, updated_info.table_info.id) # 0
    THEN Outcome("AlreadyExists", NoVal, self)
    ELSE LET pushed == [self EXCEPT !.tables = Append(@, updated_info.table_info)]
             after == IF inc_version THEN inc_shard_version(pushed) ELSE pushed
         IN Outcome("Ok", after.shard_info.version, after)

try_insert_table(self, updated_info, inc_version) ==
    IF is_frozen(self)
    THEN Outcome("FrozenShard", NoVal, self)
    ELSE IF self.shard_info.version # updated_info.shard_info.version
    THEN Outcome("VersionMismatch", NoVal, self)
    ELSE IF position(self.tables, updated_info.table_info.id) # 0
    THEN Outcome("AlreadyExists", NoVal, self)
    ELSE LET pushed == [self EXCEPT !.tables = Append(@, updated_info.table_info)]
             after == IF inc_version THEN inc_shard_version(pushed) ELSE pushed
         IN Outcome("Ok", after.shard_info.version, after)

\* try_remove_table without its version check.
try_remove_table_unversioned(self, updated_info, inc_version) ==
    IF is_frozen(self)
    THEN Outcome("FrozenShard", NoVal, self)
    ELSE LET table_idx == position(self.tables, updated_info.table_info.id)
         IN IF table_idx = 0
            THEN Outcome("NotFound", NoVal, self)
            ELSE LET removed == [self EXCEPT !.tables = swap_remove(@, table_idx)]
                     after == IF inc_version THEN inc_shard_version(removed) ELSE removed
                 IN Outcome("Ok", after.shard_info.version, after)

\* try_remove_table that reports success when the table is not there.
try_remove_table_lenient(self, updated_info, inc_version) ==
    IF is_frozen(self)
    THEN Outcome("FrozenShard", NoVal, self)
    ELSE IF self.shard_info.version # updated_info.shard_info.version
    THEN Outcome("VersionMismatch", NoVal, self)
    ELSE LET table_idx == position(self.tables, updated_info.table_info.id)
         IN IF table_idx = 0
            THEN Outcome("Ok", self.shard_info.version, self)
            ELSE LET removed == [self EXCEPT !.tables = swap_remove(@, table_idx)]
                     after == IF inc_version THEN inc_shard_version(removed) ELSE removed
                 IN Outcome("Ok", after.shard_info.version, after)

try_remove_table(self, updated_info, inc_version) ==
    IF is_frozen(self)
    THEN Outcome("FrozenShard", NoVal, self)
    ELSE IF self.shard_info.version # updated_info.shard_info.version
    THEN Outcome("VersionMismatch", NoVal, self)
    ELSE LET table_idx == position(self.tables, updated_info.table_info.id)
         IN IF table_idx = 0
            THEN Outcome("NotFound", NoVal, self)
            ELSE LET removed == [self EXCEPT !.tables = swap_remove(@, table_idx)]
                     after == IF inc_version THEN inc_shard_version(removed) ELSE removed
                 IN Outcome("Ok", after.shard_info.version, after)

try_create_table(self, updated_info) == try_insert_table(self, updated_info, TRUE)

\* try_close_table passing inc_version = true.
try_close_table_increments(self, updated_info) ==
    LET r == try_remove_table(self, updated_info, TRUE)
    IN Outcome(r.ret, NoVal, r.data)

\* Result<()>: the version is not returned.
try_open_table(self, updated_info) ==
    LET r == try_insert_table(self, updated_info, FALSE)
    IN Outcome(r.ret, NoVal, r.data)

\* try_drop_table passing inc_version = false.
try_drop_table_keeps_version(self, updated_info) ==
    try_remove_table(self, updated_info, FALSE)

try_drop_table(self, updated_info) == try_remove_table(self, updated_info, TRUE)

try_close_table(self, updated_info) ==
    LET r == try_remove_table(self, updated_info, FALSE)
    IN Outcome(r.ret, NoVal, r.data)

\* ---------------------------------------------------------- bookkeeping

\* The record of a returned call: what was asked, what came back (ret, val),
\* the ShardData its decisive critical section found (pre) and left (post),
\* and whether freeze had been applied to the shard before.  As written here
\* the record is that of a call that never held the operator lock.
Returned(c, cl, ret, val, pre) ==
    [after_freeze |-> hist[cl.shard].freeze_applied, caller |-> c, op |-> cl.op,
     post |-> shards[cl.shard], pre |-> pre, ret |-> ret, shard |-> cl.shard,
     table |-> cl.table, val |-> val, version |-> cl.version]

\* Callers inside an operator procedure of shard h (past the operator lock).
\* The positions of a call at which its caller holds the operator lock.
Holding == {"open_locked", "open_io", "run", "returning"}

InOperator(h) == {c \in Callers : pc[c] \in Holding /\ call[c].shard = h}

NoData == [shard_info |-> [id |-> 0, status |-> "none", version |-> 0], tables |-> << >>]

NewCall(op, h, version, table) ==
    [op |-> op, pre |-> NoData, shard |-> h, table |-> table, version |-> version]

\* Shard::new: the state right after construction from a descriptor.
ShardNew(tables_of_shard) ==
    [shard_info |-> tables_of_shard.shard_info, tables |-> tables_of_shard.tables]

NewHist(d) ==
    [freeze_applied |-> FALSE,
     init_version |-> d.shard_info.version,
     ok_count |-> [v \in 0 .. MaxVersion |-> 0],
     ready_count |-> 0]

\* The shards of the handles hs, just built, and no call yet.
ShardsInit(hs) ==
    /\ shards \in [hs -> {ShardNew(t) : t \in TablesOfShard}]
    /\ \A h \in hs : shards[h].shard_info.id = h
    /\ poisoned = [h \in hs |-> FALSE]
    /\ operator = [h \in hs |-> NoOwner]
    /\ pc = [c \in Callers |-> "idle"]
    /\ call = [c \in Callers |-> NoCall]
    /\ last = NoLast
    /\ hist = [h \in hs |-> NewHist(shards[h])]

\* ShardSet::default: the empty map.
Init ==
    /\ ShardsInit(Handles)
    /\ inner = [id \in ShardIds |-> NoHandle]
    /\ mapped = [id \in ShardIds |-> NoHandle]

\* An operator lock that is handed out although it is held.
try_lock_unguarded(h) == TRUE

\* tokio Mutex::try_lock: succeeds exactly when nobody holds the lock.
\* One operator lock for all the shards of the node.
try_lock_global(h) == \A g \in DOMAIN operator : operator[g] = NoOwner

try_lock(h) == operator[h] = NoOwner

\* A guard that is forgotten instead of dropped: the lock stays held.
Release_leaks(h) == operator

\* The guard is dropped when the call returns or unwinds.
Release(h) == [operator EXCEPT ![h] = NoOwner]

\* The call has its result: its last critical section of the metadata lock
\* is over and the guard of that lock is dropped, or the awaited operator
\* procedure has ended.  The method has still to return, and the guard of
\* the operator lock lives until then; other callers run in between.  The
\* result, what the call found (pre) and what it left (post) wait with it.
Hold(c, ret, val, pre, post) ==
    /\ pc' = [pc EXCEPT ![c] = "returning"]
    /\ call' = [call EXCEPT ![c] =
                    [after_freeze |-> hist[call[c].shard].freeze_applied,
                     op |-> call[c].op, post |-> post, pre |-> pre, ret |-> ret,
                     shard |-> call[c].shard, table |-> call[c].table,
                     val |-> val, version |-> call[c].version]]
    /\ last' = NoLast
    /\ UNCHANGED operator

\* The method returns a result that no read of ShardData decided: the
\* failure of the operator's open, of the storage work of a table operation,
\* or the result of the operator's close.  Such a result is the same at
\* whatever moment before the drop of the operator guard it is taken, and
\* until the drop every other caller finds the lock held and the data as the
\* call left it earlier; the step stands at the moment of the drop.
Return(c, ret, val, pre) ==
    /\ last' = Returned(c, call[c], ret, val, pre)
    /\ operator' = Release(call[c].shard)
    /\ pc' = [pc EXCEPT ![c] = "idle"]
    /\ call' = [call EXCEPT ![c] = NoCall]

\* The method returns (open line 132, the ends of lines 140-163, or the
\* unwind of a panic): the local `operator` goes out of scope, which frees
\* the operator lock, and the caller has the result.
returns(c) ==
    /\ pc[c] = "returning"
    /\ last' = [Returned(c, call[c], call[c].ret, call[c].val, call[c].pre)
                    EXCEPT !.after_freeze = call[c].after_freeze,
                           !.post = call[c].post]
    /\ operator' = Release(call[c].shard)
    /\ pc' = [pc EXCEPT ![c] = "idle"]
    /\ call' = [call EXCEPT ![c] = NoCall]
    /\ UNCHANGED <<shards, poisoned, hist, shard_set>>

\* ------------------------------------------------------------ Shard::open
\* open that goes on without the operator lock when it is held.
open_try_lock_ignored(c, h) ==
    /\ pc[c] = "idle"
    /\ operator' = [operator EXCEPT ![h] = c]
    /\ pc' = [pc EXCEPT ![c] = "open_locked"]
    /\ call' = [call EXCEPT ![c] = NewCall("open", h, NoVal, NoTable)]
    /\ last' = NoLast
    /\ UNCHANGED <<shards, poisoned, hist, shard_set>>

\* open that waits in line for the operator lock when it is held.
open_try_lock_queues(c, h) ==
    /\ pc[c] = "idle"
    /\ LET cl == NewCall("open", h, NoVal, NoTable)
       IN IF try_lock(h)
          THEN /\ operator' = [operator EXCEPT ![h] = c]
               /\ pc' = [pc EXCEPT ![c] = "open_locked"]
          ELSE /\ pc' = [pc EXCEPT ![c] = "wait"]
               /\ UNCHANGED operator
    /\ call' = [call EXCEPT ![c] = NewCall("open", h, NoVal, NoTable)]
    /\ last' = NoLast
    /\ UNCHANGED <<shards, poisoned, hist, shard_set>>

\* open, lines 103-109: the non-blocking acquisition of the operator lock.
open_try_lock(c, h) ==
    /\ pc[c] = "idle"
    /\ LET cl == NewCall("open", h, NoVal, NoTable)
       IN IF try_lock(h)
          THEN /\ operator' = [operator EXCEPT ![h] = c]
               /\ pc' = [pc EXCEPT ![c] = "open_locked"]
               /\ call' = [call EXCEPT ![c] = cl]
               /\ last' = NoLast
          ELSE /\ last' = Returned(c, cl, "Busy", NoVal, shards[h])
               /\ UNCHANGED <<operator, pc, call>>
    /\ UNCHANGED <<shards, poisoned, hist, shard_set>>

\* open, lines 111-121: need_open and begin_open under the metadata lock.
open_begin(c) ==
    /\ pc[c] = "open_locked"
    /\ LET h == call[c].shard
           data == shards[h]
       IN IF poisoned[h]
          THEN /\ Hold(c, "Panic", NoVal, data, data)
               /\ UNCHANGED shards
          ELSE IF ~need_open(data)
          THEN /\ Hold(c, "InvalidState", NoVal, data, data)
               /\ UNCHANGED shards
          ELSE /\ shards' = [shards EXCEPT ![h] = begin_open(data)]
               /\ pc' = [pc EXCEPT ![c] = "open_io"]
               /\ call' = [call EXCEPT ![c] = [@ EXCEPT !.pre = data]]
               /\ last' = NoLast
               /\ UNCHANGED operator
    /\ UNCHANGED <<poisoned, hist, shard_set>>

\* ShardOperator::open: the slow procedure; this core sees only its result.
operator_open_results == {"Ok", "OpenFailed"}

\* open, lines 123-131: the operator's open returns; after its success,
\* finish_open under the metadata lock.  The operator lock is still held
\* when that critical section ends.
open_finish(c) ==
    /\ pc[c] = "open_io"
    /\ \E ret \in operator_open_results :
        LET h == call[c].shard
            data == shards[h]
        IN IF ret # "Ok"
           THEN /\ Return(c, ret, NoVal, call[c].pre)
                /\ UNCHANGED <<shards, hist, poisoned>>
           ELSE IF poisoned[h]
           THEN /\ Hold(c, "Panic", NoVal, call[c].pre, data)
                /\ UNCHANGED <<shards, hist, poisoned>>
           ELSE IF ~finish_open_assert(data)
           THEN /\ Hold(c, "Panic", NoVal, call[c].pre, data)
                /\ poisoned' = [poisoned EXCEPT ![h] = TRUE]
                /\ UNCHANGED <<shards, hist>>
           ELSE /\ Hold(c, "Ok", NoVal, call[c].pre, finish_open(data))
                /\ shards' = [shards EXCEPT ![h] = finish_open(data)]
                /\ hist' = IF hist[h].freeze_applied THEN hist
                           ELSE [hist EXCEPT ![h].ready_count = Saturate(@ + 1)]
                /\ UNCHANGED poisoned
    /\ UNCHANGED shard_set

\* ------------------------------------------- the operations that queue
\* lock().await that gives up with Busy when the lock is held.
lock_await_fails_fast(c, cl) ==
    /\ pc[c] = "idle"
    /\ IF try_lock(cl.shard)
       THEN /\ pc' = [pc EXCEPT ![c] = "wait"]
            /\ call' = [call EXCEPT ![c] = cl]
            /\ last' = NoLast
       ELSE /\ last' = Returned(c, cl, "Busy", NoVal, shards[cl.shard])
            /\ UNCHANGED <<pc, call>>
    /\ UNCHANGED <<shards, poisoned, operator, hist, shard_set>>

\* `self.operator.lock().await` is pending: the caller waits in line.
lock_await(c, cl) ==
    /\ pc[c] = "idle"
    /\ pc' = [pc EXCEPT ![c] = "wait"]
    /\ call' = [call EXCEPT ![c] = cl]
    /\ last' = NoLast
    /\ UNCHANGED <<shards, poisoned, operator, hist, shard_set>>

close(c, h) == lock_await(c, NewCall("close", h, NoVal, NoTable))

create_table(c, h, version, table) == lock_await(c, NewCall("create_table", h, version, table))

drop_table(c, h, version, table) == lock_await(c, NewCall("drop_table", h, version, table))

open_table(c, h, version, table) == lock_await(c, NewCall("open_table", h, version, table))

close_table(c, h, version, table) == lock_await(c, NewCall("close_table", h, version, table))

\* tokio Mutex::lock completes: the waiting caller now holds the lock.
lock_acquired(c) ==
    /\ pc[c] = "wait"
    /\ try_lock(call[c].shard)
    /\ operator' = [operator EXCEPT ![call[c].shard] = c]
    /\ pc' = [pc EXCEPT ![c] = "run"]
    /\ last' = NoLast
    /\ UNCHANGED <<shards, poisoned, call, hist, shard_set>>

\* The update of ShardData a table operation of the operator makes.
membership(op, data, updated_info) ==
    CASE op = "create_table" -> try_create_table(data, updated_info)
      [] op = "drop_table" -> try_drop_table(data, updated_info)
      [] op = "open_table" -> try_open_table(data, updated_info)
      [] op = "close_table" -> try_close_table(data, updated_info)

\* The operator procedure of a call ends with the result out.ret: what it
\* read and wrote under the metadata lock is done before the Shard method
\* returns and drops the guard of the operator lock.
operator_returns(c, out) ==
    LET h == call[c].shard
    IN /\ shards' = [shards EXCEPT ![h] = out.data]
       /\ IF out.ret = "IoError" \/ call[c].op = "close"
          THEN Return(c, out.ret, out.val, shards[h])
          ELSE Hold(c, out.ret, out.val, shards[h], out.data)
       /\ hist' = IF out.ret = "Ok" /\ call[c].op \in StructuralOps
                  THEN [hist EXCEPT ![h].ok_count[call[c].version] = Saturate(@ + 1)]
                  ELSE hist
       /\ UNCHANGED <<poisoned, shard_set>>

\* ShardOperator::create_table, drop_table, open_table, close_table: the
\* storage work fails, or the membership protocol runs under the metadata lock.
operator_table(c, op) ==
    /\ pc[c] = "run"
    /\ call[c].op = op
    /\ LET h == call[c].shard
           data == shards[h]
       IN \E io_ok \in BOOLEAN :
            operator_returns(c,
                IF poisoned[h] THEN Outcome("Panic", NoVal, data)
                ELSE IF ~io_ok THEN Outcome("IoError", NoVal, data)
                ELSE membership(op, data,
                        UpdatedTableInfo(h, call[c].version, call[c].table)))

operator_create_table(c) == operator_table(c, "create_table")

operator_drop_table(c) == operator_table(c, "drop_table")

operator_open_table(c) == operator_table(c, "open_table")

operator_close_table(c) == operator_table(c, "close_table")

\* ShardOperator::close: retains nothing in this core.
operator_close(c) ==
    /\ pc[c] = "run"
    /\ call[c].op = "close"
    /\ \E ret \in {"Ok", "IoError"} :
        operator_returns(c, Outcome(ret, NoVal, shards[call[c].shard]))

\* ShardData::freeze, applied under the metadata write lock, the one lock it
\* takes (`&mut self` of the data behind the RwLock).  It is a pub method of
\* ShardData; the ShardDataRef is shared with the ShardOperator (line 86),
\* whose procedures run while a call is past the operator lock, and that
\* lock does not guard the data: the step looks neither at the operator lock
\* nor at the position of any call.
Freeze(h) ==
    /\ ~poisoned[h]
    /\ ~is_frozen(shards[h])
    /\ shards' = [shards EXCEPT ![h] = freeze(@)]
    /\ hist' = [hist EXCEPT ![h].freeze_applied = TRUE]
    /\ last' = NoLast
    /\ UNCHANGED <<poisoned, operator, pc, call, shard_set>>

\* ------------------------------------------------------- metadata reads
\* The positions of a call at which the caller holds the write guard of the
\* metadata lock: none.  Every guard is dropped within the step that took
\* it; the guard of open ends with its block at line 121, before the
\* operator's open is awaited.
WriteGuarded == {}

\* open that keeps its write guard over the operator's open.
data_writers_during_open(h) ==
    {c \in Callers : pc[c] \in {"open_io"} /\ call[c].shard = h}

\* The callers holding the write guard of the metadata lock of shard h.
data_writers(h) ==
    {c \in Callers : pc[c] \in WriteGuarded /\ call[c].shard = h}

\* What a read returned: the data it saw (pre) and its result.
ReadReturned(c, op, h, table, ret, result) ==
    [caller |-> c, op |-> op, pre |-> shards[h], result |-> result, ret |-> ret,
     shard |-> h, table |-> table]

\* `self.data.read().unwrap()`: waits while a writer holds the lock, panics
\* when the lock is poisoned.
read(c, h, op, table, result) ==
    /\ pc[c] = "idle"
    /\ data_writers(h) = {}
    /\ last' = IF poisoned[h]
               THEN ReadReturned(c, op, h, table, "Panic", NoVal)
               ELSE ReadReturned(c, op, h, table, "Ok", result)
    /\ UNCHANGED <<shards, poisoned, operator, pc, call, hist, shard_set>>

shard_info(c, h) == read(c, h, "shard_info", NoTable, shards[h].shard_info)

Shard_is_opened(c, h) == read(c, h, "is_opened", NoTable, is_opened(shards[h]))

find_table(c, h, schema_name, table_name) ==
    read(c, h, "find_table",
         [id |-> 0, name |-> table_name, schema_name |-> schema_name],
         ShardData_find_table(shards[h], schema_name, table_name))

\* -------------------------------------------------------------- ShardSet
\* The ids that have a handle in the map.
keys(map) == {id \in DOMAIN map : map[id] # NoHandle}

\* HashMap::values: the handles, in an order the map chooses.
values(map) ==
    LET n == Cardinality(keys(map))
        orders == {o \in [1 .. n -> keys(map)] : \A i, j \in 1 .. n : o[i] = o[j] => i = j}
    IN {[i \in 1 .. n |-> map[o[i]]] : o \in orders}

\* What a registry call returned, and the bindings it found.
SetReturned(op, shard_id, shard, result) ==
    [handle |-> shard, id |-> shard_id, op |-> op, pre |-> mapped, result |-> result]

all_shards ==
    /\ \E handles \in values(inner) : last' = SetReturned("all_shards", 0, NoHandle, handles)
    /\ UNCHANGED <<shards, poisoned, operator, pc, call, hist, shard_set>>

get(shard_id) ==
    /\ last' = SetReturned("get", shard_id, NoHandle, inner[shard_id])
    /\ UNCHANGED <<shards, poisoned, operator, pc, call, hist, shard_set>>

\* remove of a registry that owns its shards: the shard goes with its entry.
remove_drops_shard(shard_id) ==
    /\ last' = SetReturned("remove", shard_id, NoHandle, inner[shard_id])
    /\ inner' = [inner EXCEPT ![shard_id] = NoHandle]
    /\ mapped' = [mapped EXCEPT ![shard_id] = NoHandle]
    /\ shards' = [h \in DOMAIN shards |-> IF h = inner[shard_id] THEN NoData ELSE shards[h]]
    /\ operator' = [h \in DOMAIN operator |->
                        IF h = inner[shard_id] THEN NoOwner ELSE operator[h]]
    /\ UNCHANGED <<poisoned, pc, call, hist>>

remove(shard_id) ==
    /\ last' = SetReturned("remove", shard_id, NoHandle, inner[shard_id])
    /\ inner' = [inner EXCEPT ![shard_id] = NoHandle]
    /\ mapped' = [mapped EXCEPT ![shard_id] = NoHandle]
    /\ UNCHANGED <<shards, poisoned, operator, pc, call, hist>>

\* insert that keeps the handle already mapped (HashMap entry().or_insert).
insert_keeps_old(shard_id, shard) ==
    /\ last' = SetReturned("insert", shard_id, shard, inner[shard_id])
    /\ inner' = IF inner[shard_id] = NoHandle
                THEN [inner EXCEPT ![shard_id] = shard]
                ELSE inner
    /\ mapped' = [mapped EXCEPT ![shard_id] = shard]
    /\ UNCHANGED <<shards, poisoned, operator, pc, call, hist>>

insert(shard_id, shard) ==
    /\ last' = SetReturned("insert", shard_id, shard, inner[shard_id])
    /\ inner' = [inner EXCEPT ![shard_id] = shard]
    /\ mapped' = [mapped EXCEPT ![shard_id] = shard]
    /\ UNCHANGED <<shards, poisoned, operator, pc, call, hist>>

Next ==
    \/ \E c \in Callers, h \in Handles : open_try_lock(c, h)
    \/ \E c \in Callers : open_begin(c)
    \/ \E c \in Callers : open_finish(c)
    \/ \E c \in Callers, h \in Handles : close(c, h)
    \/ \E c \in Callers, h \in Handles, v \in 0 .. MaxVersion, t \in TableInfo :
        \/ create_table(c, h, v, t)
        \/ drop_table(c, h, v, t)
        \/ open_table(c, h, v, t)
        \/ close_table(c, h, v, t)
    \/ \E c \in Callers : lock_acquired(c)
    \/ \E c \in Callers : operator_create_table(c)
    \/ \E c \in Callers : operator_drop_table(c)
    \/ \E c \in Callers : operator_open_table(c)
    \/ \E c \in Callers : operator_close_table(c)
    \/ \E c \in Callers : operator_close(c)
    \/ \E h \in Handles : Freeze(h)
    \/ \E c \in Callers : returns(c)

Spec == Init /\ [][Next]_vars

\* ================================================================ claims
\* What the call that has just returned found and left on its shard.
JustReturned(ops) == last.op \in ops
PreInfo == last.pre.shard_info
PostData == last.post
PostInfo == last.post.shard_info
Unchanged == PostData = last.pre
ReachedProtocol == last.ret \notin {"IoError", "Panic"}

RECURSIVE SumOk(_, _)
SumOk(h, v) == IF v < 0 THEN 0 ELSE hist[h].ok_count[v] + SumOk(h, v - 1)

\* C1: every successful create_table/drop_table raises the stored version by
\* exactly 1 and returns it (the expected version + 1); every failed one
\* leaves the version as it was; the version is always the initial version
\* plus the number of successful create/drop calls.
C1_VersionCountsStructuralCalls ==
    /\ \A h \in Handles :
        shards[h].shard_info.version = hist[h].init_version + SumOk(h, MaxVersion)
    /\ JustReturned(StructuralOps) =>
        IF last.ret = "Ok"
        THEN /\ PostInfo.version = PreInfo.version + 1
             /\ last.val = PostInfo.version
             /\ last.val = last.version + 1
        ELSE PostInfo.version = PreInfo.version

\* A second successful structural call in a row: the version has reached 2.
C1_Witness ==
    /\ JustReturned({"drop_table"})
    /\ last.ret = "Ok"
    /\ last.val = 2
    /\ hist[last.shard].ok_count[0] = 1

\* C2: of the create_table/drop_table calls on one shard that carry the same
\* expected version at most one succeeds, however they interleave, and a
\* call that fails changes neither the version nor the table list.
C2_NoLostUpdate ==
    /\ \A h \in Handles : \A v \in 0 .. MaxVersion : hist[h].ok_count[v] <= 1
    /\ (JustReturned(StructuralOps) /\ last.ret # "Ok") => Unchanged

\* Two calls with the same token are in flight together: one has just
\* succeeded while the other still waits for the operator lock.
C2_Witness ==
    /\ JustReturned(StructuralOps)
    /\ last.ret = "Ok"
    /\ \E d \in Callers :
        /\ pc[d] = "wait"
        /\ call[d].op \in StructuralOps
        /\ call[d].shard = last.shard
        /\ call[d].version = last.version

\* C3 as stated: a table mutation whose token differs from the stored version
\* fails with VersionMismatch and changes nothing.
C3_AsStated ==
    (JustReturned(TableOps) /\ ReachedProtocol /\ last.version # PreInfo.version)
        => (last.ret = "VersionMismatch" /\ Unchanged)

\* C3, amended: on a shard that is not Frozen, a table mutation whose token
\* differs from the stored version fails with VersionMismatch; on a Frozen
\* shard it fails with FrozenShard; either way version and tables are kept.
C3_StaleTokenRejected ==
    (JustReturned(TableOps) /\ ReachedProtocol /\ last.version # PreInfo.version)
        => /\ last.ret = (IF is_frozen(last.pre) THEN "FrozenShard" ELSE "VersionMismatch")
           /\ Unchanged

\* A drop with a stale token of a table that is present, on an open shard.
C3_Witness ==
    /\ JustReturned({"drop_table"})
    /\ last.ret = "VersionMismatch"
    /\ PreInfo.status = "Ready"
    /\ position(last.pre.tables, last.table.id) # 0
    /\ last.version < PreInfo.version

\* C4 as stated: once freeze has been applied to a shard, every later table
\* mutation fails with FrozenShard and changes nothing, whatever was invoked
\* on the shard in between.
C4_FrozenRejectsForever ==
    (JustReturned(TableOps) /\ ReachedProtocol /\ last.after_freeze)
        => (last.ret = "FrozenShard" /\ Unchanged)

Status(h) == shards[h].shard_info.status

\* C5 as stated: the status moves only NotOpened -> Opening -> Ready or to
\* Frozen, and never leaves Frozen.
C5_StatusTransitions ==
    [][\A h \in Handles :
        \/ Status(h)' = Status(h)
        \/ Status(h)' = "Frozen"
        \/ Status(h) = "NotOpened" /\ Status(h)' = "Opening"
        \/ Status(h) = "Opening" /\ Status(h)' = "Ready"]_vars

\* Callers inside Shard::open of shard h, past try_lock.
OpenCallers(h) == {c \in Callers : pc[c] \in {"open_locked", "open_io"} /\ call[c].shard = h}

\* C6: of two overlapping open() calls on a shard not yet opened exactly one
\* gets to the operator's open; the other returns Busy at once and changes
\* nothing; the winner, if the operator succeeds, takes the status through
\* Opening to Ready, and (no freeze applied) Ready is entered at most once.
C6_OverlappingOpens ==
    \A h \in Handles :
        /\ Cardinality(OpenCallers(h)) <= 1
        /\ (JustReturned({"open"}) /\ last.shard = h /\ last.ret = "Busy")
            => (Unchanged /\ operator[h] \notin {NoOwner, last.caller})
        /\ ~hist[h].freeze_applied =>
            /\ hist[h].ready_count = (IF Status(h) = "Ready" THEN 1 ELSE 0)
            /\ \A c \in OpenCallers(h) : pc[c] = "open_io" => Status(h) = "Opening"
            /\ (JustReturned({"open"}) /\ last.shard = h /\ last.ret = "Ok")
                => /\ PreInfo.status \in {"NotOpened", "Opening"}
                   /\ Status(h) = "Ready"

\* The second open() has just been turned away with Busy while the first is
\* in the operator's open on the shard, which was NotOpened when it began.
C6_Witness ==
    /\ JustReturned({"open"})
    /\ last.ret = "Busy"
    /\ \E c \in Callers \ {last.caller} :
        /\ pc[c] = "open_io"
        /\ call[c].shard = last.shard
        /\ call[c].pre.shard_info.status = "NotOpened"
    /\ Status(last.shard) = "Opening"

\* C7: at most one mutating operation per shard is past the operator lock,
\* and it is the one the lock names.
C7_OneOperationInFlight ==
    \A h \in Handles :
        /\ Cardinality(InOperator(h)) <= 1
        /\ InOperator(h) = (IF operator[h] = NoOwner THEN {} ELSE {operator[h]})

\* One caller runs a table operation while the other waits for the lock.
C7_Witness ==
    \E c, d \in Callers :
        /\ pc[c] = "run" /\ call[c].op = "create_table"
        /\ pc[d] = "wait" /\ call[d].op = "drop_table"
        /\ call[c].shard = call[d].shard

\* C8 as stated: an open() that holds the operator lock and finds the status
\* Opening or Ready does not get to the operator's open.
C8_AsStated ==
    \A c \in Callers :
        pc[c] = "open_io" => call[c].pre.shard_info.status \notin {"Opening", "Ready"}

\* C8, amended: an open() that holds the operator lock and finds the status
\* Ready fails with InvalidState, changes nothing and does not get to the
\* operator's open; InvalidState is returned in no other case.
C8_ReadyRejectsOpen ==
    /\ \A c \in Callers :
        pc[c] = "open_io" => call[c].pre.shard_info.status # "Ready"
    /\ (JustReturned({"open"}) /\ last.ret = "InvalidState")
        => (PreInfo.status = "Ready" /\ Unchanged /\ operator[last.shard] = NoOwner)
    /\ (JustReturned({"open"}) /\ PreInfo.status = "Ready")
        => last.ret \in {"InvalidState", "Busy", "Panic"}

C8_Witness ==
    /\ JustReturned({"open"})
    /\ last.ret = "InvalidState"
    /\ PreInfo.status = "Ready"

\* The statuses the operator's open can find or leave on shard h.
WhileOpening(h) == {"Opening"} \cup (IF hist[h].freeze_applied THEN {"Frozen"} ELSE {})

\* C9: a failed operator open is returned to the caller and changes no shard
\* data, so the status stays Opening (Frozen if a freeze came in between); an
\* open() that then finds Opening is not refused, and when the operator
\* succeeds the status is Ready.
C9_FailedOpenRetryable ==
    /\ [](/\ \A c \in Callers :
              pc[c] = "open_io" => Status(call[c].shard) \in WhileOpening(call[c].shard)
          /\ (JustReturned({"open"}) /\ last.ret = "OpenFailed")
              => Status(last.shard) \in WhileOpening(last.shard)
          /\ (JustReturned({"open"}) /\ last.ret = "InvalidState")
              => PreInfo.status # "Opening"
          /\ (JustReturned({"open"}) /\ last.ret = "Ok")
              => PostInfo.status = "Ready")
    /\ [][\A c \in Callers :
            (pc[c] = "open_io" /\ pc'[c] = "idle" /\ last'.ret = "OpenFailed")
                => shards' = shards]_vars

\* An open() that found the status Opening, left by a failed open, has
\* succeeded.
C9_Witness ==
    /\ JustReturned({"open"})
    /\ last.ret = "Ok"
    /\ PreInfo.status = "Opening"
    /\ ~last.after_freeze
    /\ PostInfo.status = "Ready"

\* C10: open_table and close_table leave the version as it was, whatever
\* they return.
C10_MaterializationKeepsVersion ==
    JustReturned({"open_table", "close_table"})
        => (PostInfo.version = PreInfo.version /\ last.val = NoVal)

\* A close_table that removed a table of a shard at version 1.
C10_Witness ==
    /\ JustReturned({"close_table"})
    /\ last.ret = "Ok"
    /\ PreInfo.version = 1
    /\ Len(PostData.tables) = Len(last.pre.tables) - 1

\* The table the returned call named was in the list its protocol found.
PreHasTable == position(last.pre.tables, last.table.id) # 0
\* The returned call carried the version its protocol found, on a shard
\* that was not Frozen.
TokenMatched == ~is_frozen(last.pre) /\ last.version = PreInfo.version

\* C11: on a shard that is not Frozen, with a matching token, create_table
\* and open_table of a table id already present fail with AlreadyExists, and
\* drop_table and close_table of a table id not present fail with NotFound;
\* version and table list are left as they were.
C11_PresenceErrors ==
    (JustReturned(TableOps) /\ ReachedProtocol /\ TokenMatched) =>
        /\ (last.op \in {"create_table", "open_table"} /\ PreHasTable)
            => (last.ret = "AlreadyExists" /\ Unchanged)
        /\ (last.op \in {"drop_table", "close_table"} /\ ~PreHasTable)
            => (last.ret = "NotFound" /\ Unchanged)
        /\ last.ret = "AlreadyExists"
            => (last.op \in {"create_table", "open_table"} /\ PreHasTable)
        /\ last.ret = "NotFound"
            => (last.op \in {"drop_table", "close_table"} /\ ~PreHasTable)

\* A close_table of an absent table on an open shard that holds another
\* table, with the right token, has been answered NotFound.
C11_Witness ==
    /\ JustReturned({"close_table"})
    /\ last.ret = "NotFound"
    /\ PreInfo.status = "Ready"
    /\ last.version = PreInfo.version
    /\ Len(last.pre.tables) = 1

\* Caller c, idle before the step, has called open() on shard h in it.
OpenCalled(c, h) ==
    /\ pc[c] = "idle"
    /\ \/ pc'[c] # "idle" /\ call'[c].op = "open" /\ call'[c].shard = h
       \/ last'.op = "open" /\ last'.caller = c /\ last'.shard = h

\* C12: open() never waits for the operator lock: called while any mutating
\* operation holds it, open() returns Busy in that same step, is not queued
\* and leaves the shard's data, the lock and every caller as they were.
C12_OpenFailsFast ==
    /\ [](/\ \A c \in Callers : pc[c] = "wait" => call[c].op # "open"
          /\ (JustReturned({"open"}) /\ last.ret = "Busy")
                => (Unchanged /\ InOperator(last.shard) # {}))
    /\ [][\A c \in Callers, h \in Handles :
            (OpenCalled(c, h) /\ operator[h] # NoOwner)
                => /\ last'.ret = "Busy"
                   /\ UNCHANGED <<shards, poisoned, operator, pc, call, hist>>]_vars

\* open() has been answered Busy while a drop_table of another caller runs
\* on the shard.
C12_Witness ==
    /\ JustReturned({"open"})
    /\ last.ret = "Busy"
    /\ \E d \in Callers \ {last.caller} :
        /\ pc[d] = "run"
        /\ call[d].op = "drop_table"
        /\ call[d].shard = last.shard

\* The operations that take the operator lock with lock().await.
QueuedOps == TableOps \cup {"close"}

\* The step of caller c that ends its hold of the operator lock.
HolderFinishes(c) ==
    \/ open_begin(c)
    \/ open_finish(c)
    \/ operator_create_table(c)
    \/ operator_drop_table(c)
    \/ operator_open_table(c)
    \/ operator_close_table(c)
    \/ operator_close(c)
    \/ returns(c)

\* Every lock holder eventually finishes (the proviso of the queued calls'
\* guarantee), and the tokio Mutex is fair: a waiter is not passed over
\* forever while the lock keeps being released.
Fairness ==
    \A c \in Callers :
        /\ WF_vars(HolderFinishes(c))
        /\ SF_vars(lock_acquired(c))

\* Who gets the operator lock, and when, does not depend on the table a call
\* names: the calls of this specification all name one table.
QueueTables == {t \in TableInfo : \A u \in TableInfo : t.id <= u.id}

QueueNext ==
    \/ \E c \in Callers, h \in Handles : open_try_lock(c, h)
    \/ \E c \in Callers : open_begin(c)
    \/ \E c \in Callers : open_finish(c)
    \/ \E c \in Callers, h \in Handles : close(c, h)
    \/ \E c \in Callers, h \in Handles, v \in 0 .. MaxVersion, t \in QueueTables :
        \/ create_table(c, h, v, t)
        \/ drop_table(c, h, v, t)
        \/ open_table(c, h, v, t)
        \/ close_table(c, h, v, t)
    \/ \E c \in Callers : lock_acquired(c)
    \/ \E c \in Callers : operator_create_table(c)
    \/ \E c \in Callers : operator_drop_table(c)
    \/ \E c \in Callers : operator_open_table(c)
    \/ \E c \in Callers : operator_close_table(c)
    \/ \E c \in Callers : operator_close(c)
    \/ \E h \in Handles : Freeze(h)
    \/ \E c \in Callers : returns(c)

\* The shards start from descriptors without tables, at version 0.
QueueInit ==
    /\ Init
    /\ \A h \in Handles : shards[h].tables = << >> /\ shards[h].shard_info.version = 0

FairSpec == QueueInit /\ [][QueueNext]_vars /\ Fairness

\* The same calls with no assumption on who runs: for what every step of a
\* call does, whichever table it names.
CallSpec == QueueInit /\ [][QueueNext]_vars

\* ---------------------------------------------- readers beside the calls
\* The names find_table is asked for: those of the tables and others.
FindSchemaNames == SchemaNames \cup {"other"}
FindTableNames == TableNames \cup {"u"}
ReadOps == {"shard_info", "is_opened", "find_table"}

ReadNext ==
    \/ QueueNext
    \/ \E c \in Callers, h \in Handles : shard_info(c, h)
    \/ \E c \in Callers, h \in Handles : Shard_is_opened(c, h)
    \/ \E c \in Callers, h \in Handles, s \in FindSchemaNames, n \in FindTableNames :
        find_table(c, h, s, n)

ReadSpec == QueueInit /\ [][ReadNext]_vars

\* C13: close, create_table, drop_table, open_table and close_table are
\* never answered Busy and never dropped: a call that waits for the operator
\* lock stays the same call until it holds the lock, and it eventually holds
\* the lock and runs its operator procedure.
C13_QueuedCallsRun ==
    /\ [](JustReturned(QueuedOps) => last.ret # "Busy")
    /\ [][\A c \in Callers :
            pc[c] = "wait" => (pc'[c] \in {"wait", "run"} /\ call'[c] = call[c])]_vars
    /\ \A c \in Callers : (pc[c] = "wait") ~> (pc[c] = "run")

\* A create_table waits for the operator lock while an open() of the other
\* caller is in the operator's open.
C13_Witness ==
    \E c, d \in Callers :
        /\ pc[c] = "wait" /\ call[c].op = "create_table"
        /\ pc[d] = "open_io" /\ call[d].shard = call[c].shard

\* C14: while an open() is in the operator's open procedure it holds no
\* guard of the metadata lock, so shard_info(), is_opened() and find_table()
\* of another caller complete at once; they see the status Opening (Frozen
\* if a freeze has been applied in between), that is, a shard not opened.
C14_ReadsDuringOpen ==
    \A c \in Callers :
        pc[c] = "open_io" =>
            LET h == call[c].shard
            IN /\ data_writers(h) = {}
               /\ \A d \in Callers :
                    pc[d] = "idle" =>
                        /\ ENABLED shard_info(d, h)
                        /\ ENABLED Shard_is_opened(d, h)
                        /\ \A s \in FindSchemaNames, n \in FindTableNames :
                            ENABLED find_table(d, h, s, n)
               /\ (JustReturned(ReadOps) /\ last.shard = h) =>
                    /\ last.ret = "Ok"
                    /\ last.pre = shards[h]
                    /\ last.op = "shard_info" =>
                        /\ last.result.status \in WhileOpening(h)
                        /\ ~hist[h].freeze_applied => last.result.status = "Opening"
                        /\ last.result.version = shards[h].shard_info.version
                    /\ last.op = "is_opened" => last.result = FALSE
                    /\ last.op = "find_table" =>
                        \/ /\ last.result = NoTable
                           /\ \A i \in DOMAIN shards[h].tables :
                                \/ shards[h].tables[i].schema_name # last.table.schema_name
                                \/ shards[h].tables[i].name # last.table.name
                        \/ /\ \E i \in DOMAIN shards[h].tables : shards[h].tables[i] = last.result
                           /\ last.result.schema_name = last.table.schema_name
                           /\ last.result.name = last.table.name

\* shard_info() has returned the status Opening to one caller while the
\* other is in the operator's open.
C14_Witness ==
    /\ JustReturned({"shard_info"})
    /\ last.ret = "Ok"
    /\ last.result.status = "Opening"
    /\ \E c \in Callers \ {last.caller} : pc[c] = "open_io" /\ call[c].shard = last.shard

\* ------------------------------------------------- the registry by itself
SetOps == {"all_shards", "get", "remove", "insert"}

SetNext ==
    \/ all_shards
    \/ \E id \in ShardIds : get(id)
    \/ \E id \in ShardIds : remove(id)
    \/ \E id \in ShardIds, h \in ShardRefs : insert(id, h)

SetSpec == Init /\ [][SetNext]_vars

\* The handles a list holds, with their number of occurrences.
Occurrences(handles, h) == Cardinality({i \in DOMAIN handles : handles[i] = h})

\* C15: the registry is a finite map from shard id to handle.  get returns
\* the handle last inserted for the id and not removed since, none otherwise;
\* insert returns the handle it replaces, none on first insertion; remove
\* returns the mapped handle and leaves the id unmapped, so that a repeated
\* remove returns none; all_shards returns exactly the mapped handles.
C15_RegistryIsMap ==
    /\ inner = mapped
    /\ JustReturned({"get"}) =>
        (last.result = last.pre[last.id] /\ mapped = last.pre)
    /\ JustReturned({"insert"}) =>
        /\ last.result = last.pre[last.id]
        /\ mapped = [last.pre EXCEPT ![last.id] = last.handle]
    /\ JustReturned({"remove"}) =>
        /\ last.result = last.pre[last.id]
        /\ mapped = [last.pre EXCEPT ![last.id] = NoHandle]
    /\ JustReturned({"all_shards"}) =>
        /\ mapped = last.pre
        /\ Len(last.result) = Cardinality(keys(last.pre))
        /\ \A h \in ShardRefs :
            Occurrences(last.result, h) = Cardinality({id \in ShardIds : last.pre[id] = h})

\* A second insert for an id has returned the handle of the first.
C15_Witness ==
    /\ JustReturned({"insert"})
    /\ last.result \in ShardRefs \ {last.handle}
    /\ inner[last.id] = last.handle
    /\ \E id \in ShardIds \ {last.id} : inner[id] # NoHandle

\* ------------------------------------------- the registry beside the calls
\* Every shard was put into the registry under its id when it was built.
HandleInit ==
    /\ ShardsInit(Handles)
    /\ \A h \in Handles : shards[h].tables = << >> /\ shards[h].shard_info.version = 0
    /\ inner = [id \in ShardIds |-> IF id \in Handles THEN id ELSE NoHandle]
    /\ mapped = inner

HandleNext ==
    \/ QueueNext
    \/ \E id \in ShardIds : get(id)
    \/ \E id \in ShardIds : remove(id)
    \/ \E id \in ShardIds, h \in Handles : insert(id, h)

HandleSpec == HandleInit /\ [][HandleNext]_vars

\* No id of the registry maps to the handle: in HandleSpec, where every
\* handle starts mapped, it has been removed.
Unmapped(h) == \A id \in ShardIds : inner[id] # h

\* C16: remove changes no shard's data, lock or call; an operation on a
\* handle that is no longer in the registry, in flight at the removal or
\* started after it, goes on to its end, and its effect is applied to the
\* shard of the handle.
C16_RemovalKeepsShard ==
    /\ [][last'.op = "remove" =>
            UNCHANGED <<shards, poisoned, operator, pc, call, hist>>]_vars
    /\ [](\A c \in Callers :
            (pc[c] # "idle" /\ Unmapped(call[c].shard)) =>
                IF pc[c] = "wait"
                THEN try_lock(call[c].shard) => ENABLED lock_acquired(c)
                ELSE ENABLED HolderFinishes(c))
    /\ []((JustReturned(TableOps) /\ last.ret = "Ok" /\ Unmapped(last.shard)) =>
            /\ (position(PostData.tables, last.table.id) # 0)
                    = (last.op \in {"create_table", "open_table"})
            /\ PostInfo.version =
                    PreInfo.version + (IF last.op \in StructuralOps THEN 1 ELSE 0))
    /\ []((JustReturned({"open"}) /\ last.ret = "Ok" /\ Unmapped(last.shard)) =>
            PostInfo.status = "Ready")

\* remove has just returned the handle of a shard on which a create_table
\* of a caller is in its operator procedure.
C16_Witness ==
    /\ JustReturned({"remove"})
    /\ last.result \in Handles
    /\ Unmapped(last.result)
    /\ \E c \in Callers :
        pc[c] = "run" /\ call[c].op = "create_table" /\ call[c].shard = last.result

\* A create_table called on a handle after its removal has succeeded.
C16_StartedAfterRemoval ==
    /\ JustReturned({"create_table"})
    /\ last.ret = "Ok"
    /\ Unmapped(last.shard)
    /\ position(PostData.tables, last.table.id) # 0

\* C17: the table ids of a shard's table list are pairwise distinct in every
\* reachable state, the descriptor the shard was built from having distinct
\* ids.
C17_TableIdsDistinct ==
    \A h \in Handles : HasDistinctIds(shards[h].tables)

\* An open_table of a table id that is in the list, beside another table,
\* has been refused: the list holds both ids once.
C17_Witness ==
    /\ JustReturned({"open_table"})
    /\ last.ret = "AlreadyExists"
    /\ Len(PostData.tables) = 2
    /\ HasDistinctIds(PostData.tables)

\* The set of table ids of shard h, and its version.
Ids(h) == {shards[h].tables[i].id : i \in DOMAIN shards[h].tables}
Version(h) == shards[h].shard_info.version

\* C18 as stated: two states of a shard with the same version have the same
\* set of table ids; in steps, the set does not change while the version
\* stays.
C18_AsStated ==
    [][\A h \in Handles : Version(h)' = Version(h) => Ids(h)' = Ids(h)]_vars

\* C18, amended: the version never goes down and guards the structural
\* changes only.  A step that changes the set of table ids is the critical
\* section of a table mutation on the shard that will return Ok, made while
\* the call holds the operator lock; it raises the version by one when
\* the mutation is create_table or drop_table and keeps it when it is
\* open_table or close_table; and every change of the version changes the
\* set.  So two states with the same version differ in their id sets by the
\* open_table and close_table calls between them, and by nothing else.
C18_VersionGuardsStructure ==
    [][\A h \in Handles :
        /\ Version(h)' >= Version(h)
        /\ Ids(h)' # Ids(h) =>
            \E c \in Callers :
                /\ pc[c] = "run" /\ pc'[c] = "returning" /\ operator[h] = c
                /\ call[c].op \in TableOps /\ call[c].shard = h
                /\ call'[c].ret = "Ok"
                /\ Version(h)' = Version(h) + (IF call[c].op \in StructuralOps THEN 1 ELSE 0)
                /\ call[c].version = Version(h)
        /\ Version(h)' # Version(h) => Ids(h)' # Ids(h)]_vars

\* An open_table has added a table id and left the version as it was.
C18_Witness ==
    /\ JustReturned({"open_table"})
    /\ last.ret = "Ok"
    /\ PostInfo.version = PreInfo.version
    /\ position(PostData.tables, last.table.id) # 0
    /\ position(last.pre.tables, last.table.id) = 0

\* ------------------------------------------------------------ two shards
\* Two coordinators, each with its own ShardData and operator lock.
PairHandles == {1, 2}

PairInit ==
    /\ ShardsInit(PairHandles)
    /\ \A h \in PairHandles : shards[h].tables = << >> /\ shards[h].shard_info.version = 0
    /\ inner = [id \in ShardIds |-> NoHandle]
    /\ mapped = inner

\* The calls of this specification are the operations of Shard, with the
\* tokens of callers that take the shard to be new.
PairTokens == {0}

PairNext ==
    \/ \E c \in Callers, h \in PairHandles : open_try_lock(c, h)
    \/ \E c \in Callers : open_begin(c)
    \/ \E c \in Callers : open_finish(c)
    \/ \E c \in Callers, h \in PairHandles : close(c, h)
    \/ \E c \in Callers, h \in PairHandles, v \in PairTokens, t \in QueueTables :
        \/ create_table(c, h, v, t)
        \/ drop_table(c, h, v, t)
        \/ open_table(c, h, v, t)
        \/ close_table(c, h, v, t)
    \/ \E c \in Callers : lock_acquired(c)
    \/ \E c \in Callers : operator_create_table(c)
    \/ \E c \in Callers : operator_drop_table(c)
    \/ \E c \in Callers : operator_open_table(c)
    \/ \E c \in Callers : operator_close_table(c)
    \/ \E c \in Callers : operator_close(c)
    \/ \E c \in Callers : returns(c)

PairSpec == PairInit /\ [][PairNext]_vars

\* The step is one of a call on shard h: the call starts, goes on, or is an
\* open() turned away at once.
StepOn(h) ==
    \/ \E c \in Callers : pc[c] # "idle" /\ pc'[c] # pc[c] /\ call[c].shard = h
    \/ \E c \in Callers : pc[c] = "idle" /\ pc'[c] # "idle" /\ call'[c].shard = h
    \/ last'.op = "open" /\ last'.ret = "Busy" /\ last'.shard = h

\* C19: a step of a call on one shard leaves the data, the metadata lock and
\* the operator lock of every other shard as they were, and no shard's id
\* ever changes; open() is answered Busy only when the operator lock of its
\* own shard is held, and gets that lock when it is free, whoever holds the
\* lock of another shard; a call waiting for the operator lock of its shard
\* can take it as soon as that lock is free.
C19_ShardsIndependent ==
    /\ [][\A g \in PairHandles :
            /\ shards'[g].shard_info.id = shards[g].shard_info.id
            /\ ~StepOn(g) =>
                /\ shards'[g] = shards[g]
                /\ poisoned'[g] = poisoned[g]
                /\ operator'[g] = operator[g]
                /\ hist'[g] = hist[g]]_vars
    /\ [][\A c \in Callers, h \in PairHandles :
            (OpenCalled(c, h) /\ operator[h] = NoOwner)
                => (pc'[c] = "open_locked" /\ operator'[h] = c)]_vars
    /\ []((JustReturned({"open"}) /\ last.ret = "Busy")
            => operator[last.shard] \notin {NoOwner, last.caller})
    /\ [](\A c \in Callers :
            (pc[c] = "wait" /\ operator[call[c].shard] = NoOwner)
                => ENABLED lock_acquired(c))

\* An open() has got the operator lock of one shard and stands in the
\* operator's open while a create_table holds the operator lock of the other.
C19_Witness ==
    \E c, d \in Callers :
        /\ pc[c] = "run" /\ call[c].op = "create_table"
        /\ pc[d] = "open_io"
        /\ call[c].shard # call[d].shard
        /\ operator[call[c].shard] = c
        /\ operator[call[d].shard] = d

\* The step is one of an open() call on shard h.
OpenStepOn(h) ==
    \E c \in Callers :
        \/ OpenCalled(c, h)
        \/ /\ pc[c] \in Holding /\ pc'[c] # pc[c]
           /\ call[c].op = "open" /\ call[c].shard = h

\* The step is the operator procedure of a table mutation on shard h, or
\* the return of the call.
TableStepOn(h) ==
    \E c \in Callers :
        /\ pc[c] \in Holding /\ pc'[c] # pc[c]
        /\ call[c].op \in TableOps /\ call[c].shard = h

\* C20: open() changes nothing of a shard but its status: no step of an
\* open() call changes the id, the version or the table list, and they are
\* at its return, whatever it returns, what they were at its start; no table
\* mutation changes the status or the id.
C20_OpenTouchesStatusOnly ==
    /\ [][\A h \in Handles :
            /\ OpenStepOn(h) =>
                /\ shards'[h].tables = shards[h].tables
                /\ shards'[h].shard_info.version = shards[h].shard_info.version
                /\ shards'[h].shard_info.id = shards[h].shard_info.id
            /\ TableStepOn(h) =>
                /\ shards'[h].shard_info.status = shards[h].shard_info.status
                /\ shards'[h].shard_info.id = shards[h].shard_info.id]_vars
    /\ [](JustReturned({"open"}) =>
            /\ PostData.tables = last.pre.tables
            /\ PostInfo.version = PreInfo.version
            /\ PostInfo.id = PreInfo.id)
    /\ [](JustReturned(TableOps) =>
            /\ PostInfo.status = PreInfo.status
            /\ PostInfo.id = PreInfo.id)

\* An open() of a shard at version 1 that holds a table has succeeded: the
\* status has changed, version and table list have not.
C20_Witness ==
    /\ JustReturned({"open"})
    /\ last.ret = "Ok"
    /\ PreInfo.status = "NotOpened"
    /\ PostInfo.status = "Ready"
    /\ PostInfo.version = 1
    /\ Len(PostData.tables) = 1

C22_CheckOrder ==
    (JustReturned(TableOps) /\ ReachedProtocol) =>
        /\ is_frozen(last.pre) => last.ret = "FrozenShard"
        /\ (~is_frozen(last.pre) /\ last.version # PreInfo.version)
            => last.ret = "VersionMismatch"
        /\ TokenMatched => last.ret \in {"Ok", "AlreadyExists", "NotFound"}
        /\ last.ret # "Ok" => Unchanged

\* A create_table on a Frozen shard, with a stale token and a table id that
\* is in the list, has been answered FrozenShard.
C22_Witness ==
    /\ JustReturned({"create_table"})
    /\ last.ret = "FrozenShard"
    /\ last.version # PreInfo.version
    /\ PreHasTable

\* --------------------------------------------- tables named in two ways
\* The tables a call can name: those of TableInfo, and the same ids under
\* another table name.  The calls are the four table operations.
NamedTables == [id : TableIds, name : TableNames \cup {"u"}, schema_name : SchemaNames]

MatchNext ==
    \/ \E c \in Callers, h \in Handles, v \in 0 .. MaxVersion, t \in NamedTables :
        \/ create_table(c, h, v, t)
        \/ drop_table(c, h, v, t)
        \/ open_table(c, h, v, t)
        \/ close_table(c, h, v, t)
    \/ \E c \in Callers : lock_acquired(c)
    \/ \E c \in Callers : operator_create_table(c)
    \/ \E c \in Callers : operator_drop_table(c)
    \/ \E c \in Callers : operator_open_table(c)
    \/ \E c \in Callers : operator_close_table(c)
    \/ \E c \in Callers : returns(c)

MatchSpec == QueueInit /\ [][MatchNext]_vars

\* The tables of a list, as a set.
TableSet(tables) == {tables[i] : i \in DOMAIN tables}

\* C23: a successful create_table or open_table adds the requested table and
\* nothing else; a successful drop_table or close_table takes out the one
\* entry whose id is the requested id, whatever names the request carries,
\* and keeps every other table; the list grows or shrinks by exactly one.
C23_ExactlyTheRequestedTable ==
    (JustReturned(TableOps) /\ last.ret = "Ok") =>
        LET pre == last.pre.tables
            post == PostData.tables
        IN IF last.op \in {"create_table", "open_table"}
           THEN /\ post = Append(pre, last.table)
                /\ TableSet(post) = TableSet(pre) \cup {last.table}
                /\ last.table \notin TableSet(pre)
                /\ Len(post) = Len(pre) + 1
           ELSE /\ TableSet(post) = {t \in TableSet(pre) : t.id # last.table.id}
                /\ Cardinality({i \in DOMAIN pre : pre[i].id = last.table.id}) = 1
                /\ Len(post) = Len(pre) - 1

\* A drop_table that names the id of the first of two tables under another
\* table name has removed that table and kept the other.
C23_Witness ==
    /\ JustReturned({"drop_table"})
    /\ last.ret = "Ok"
    /\ Len(last.pre.tables) = 2
    /\ last.pre.tables[1].id = last.table.id
    /\ last.pre.tables[1].name # last.table.name
    /\ PostData.tables = << last.pre.tables[2] >>

\* C24: a shard built NotOpened is not opened, and is_opened() turns true
\* only in the critical section that an open() on that shard runs after its
\* operator's open has returned success, the call then being about to return
\* Ok; no step of an open() whose operator's open is still running, no
\* failed open() and no other call makes the shard Ready.
C24_ReadyOnlyAfterOpenSucceeded ==
    /\ \A h \in Handles : ~is_opened(shards[h])
    /\ [][\A h \in Handles :
              (~is_opened(shards[h]) /\ is_opened(shards'[h])) =>
                  \E c \in Callers :
                      /\ pc[c] = "open_io" /\ pc'[c] = "returning"
                      /\ call[c].op = "open" /\ call[c].shard = h
                      /\ call'[c].ret = "Ok"]_vars
    /\ [](\A h \in Handles :
              (JustReturned({"is_opened"}) /\ last.shard = h /\ last.ret = "Ok" /\ last.result = TRUE) =>
                  Status(h) = "Ready")

\* An is_opened() of another caller has answered true: the operator's open
\* of an open() that found the status Opening, left by a failed open, has
\* succeeded and finish_open has run; that open() has not returned yet.
C24_Witness ==
    /\ JustReturned({"is_opened"})
    /\ last.ret = "Ok"
    /\ last.result = TRUE
    /\ \E c \in Callers \ {last.caller} :
        /\ pc[c] = "returning"
        /\ call[c].op = "open" /\ call[c].shard = last.shard
        /\ call[c].ret = "Ok"
        /\ call[c].pre.shard_info.status = "Opening"

\* The callers with a mutating call on shard h under way, waiting or running.
InFlight(h) == {c \in Callers : pc[c] # "idle" /\ call[c].shard = h}

\* C25: every return of a mutating operation that held the operator lock
\* leaves the lock free, the InvalidState rejection of open(), the failure
\* of the operator's procedure and the panics included.  Hence the lock is
\* free whenever no mutating operation is under way on the shard, and a held
\* lock belongs to a call that is under way; an open() called while none is
\* under way is not answered Busy; and a held lock is eventually free, so a
\* waiting call eventually returns.
C25_LockReleasedOnExit ==
    /\ [](\A h \in Handles :
            /\ InFlight(h) = {} => operator[h] = NoOwner
            /\ operator[h] # NoOwner => InOperator(h) = {operator[h]})
    /\ [][\A c \in Callers :
            (pc[c] \in Holding /\ pc'[c] = "idle") =>
                /\ last'.op = call[c].op
                /\ last'.caller = c
                /\ operator[call[c].shard] = c
                /\ operator'[call[c].shard] = NoOwner]_vars
    /\ [][\A c \in Callers, h \in Handles :
            (OpenCalled(c, h) /\ InFlight(h) = {}) =>
                (pc'[c] = "open_locked" /\ operator'[h] = c)]_vars
    /\ \A h \in Handles : (operator[h] # NoOwner) ~> (operator[h] = NoOwner)
    /\ \A c \in Callers : (pc[c] = "wait") ~> (pc[c] = "idle")

\* An open() has just been rejected because the shard is opened; nobody is
\* in a call any more and the operator lock is free.
C25_Witness ==
    /\ JustReturned({"open"})
    /\ last.ret = "InvalidState"
    /\ \A c \in Callers : pc[c] = "idle"
    /\ operator[last.shard] = NoOwner

====
